---------------------------- MODULE Spec2Model ----------------------------
(***************************************************************************)
(* Model of src/src/vec2.rs: the Vec2 value type (two f32 components), its *)
(* in-place mutators, pure computations, operator impls between Vec2 and   *)
(* the coordinate pair (f32, f32), and the epsilon-tolerant equality.      *)
(*                                                                         *)
(* f32 is modelled as a scaled-down IEEE-754 binary format: MantBits bits  *)
(* of significand (f32: 24), exponents MinExp..MaxExp (f32: -126..127),    *)
(* subnormals, signed zeros, infinities, one NaN, round-to-nearest-even.   *)
(* A finite value is an integer count k of the smallest subnormal, so all  *)
(* arithmetic is exact integer arithmetic followed by one rounding.        *)
(***************************************************************************)
EXTENDS Integers, Sequences, FiniteSets, TLC

\* ------------------------------------------------------------------ bounds
\* significand width of the modelled float format (f32 has 24)
MantBits == 4
\* largest binary exponent of the modelled float format (f32 has 127)
MaxExp == 4
\* number of operations applied to one vector after its construction
MaxSteps == 2

\* ------------------------------------------------------------ f32: format
RECURSIVE Pow2(_)
Pow2(n) == IF n <= 0 THEN 1 ELSE 2 * Pow2(n - 1)

RECURSIVE BitLen(_)
BitLen(n) == IF n <= 0 THEN 0 ELSE 1 + BitLen(n \div 2)

\* 1.0 is 2^FracBits units; one unit is the smallest subnormal
FracBits == MaxExp + MantBits - 2
One == Pow2(FracBits)
\* f32::MAX in units: (2^p - 1) * 2^(emax - p + 1)
MaxK == (Pow2(MantBits) - 1) * Pow2(2 * MaxExp - 1)

Fin(neg, k) == [cls |-> "fin", neg |-> neg, k |-> k]
Inf(neg) == [cls |-> "inf", neg |-> neg, k |-> 0]
NaN == [cls |-> "nan", neg |-> FALSE, k |-> 0]
PosZero == Fin(FALSE, 0)
NegZero == Fin(TRUE, 0)
FOne == Fin(FALSE, One)
\* f32::EPSILON: the distance from 1.0 to the next float, 2^-(p-1)
EPSILON == Fin(FALSE, One \div Pow2(MantBits - 1))

IsNaN(a) == a.cls = "nan"
IsInf(a) == a.cls = "inf"
IsFin(a) == a.cls = "fin"
\* the signed integer count of units of a finite float
Units(a) == IF a.neg THEN 0 - a.k ELSE a.k

\* k units is a value of the format: at most MantBits significant bits
Representable(k) ==
    /\ k >= 0
    /\ k <= MaxK
    /\ \/ BitLen(k) <= MantBits
       \/ k % Pow2(BitLen(k) - MantBits) = 0

\* every value of the format
F32 == {Fin(n, k) : n \in BOOLEAN, k \in {j \in 0..MaxK : Representable(j)}}
         \cup {Inf(TRUE), Inf(FALSE), NaN}

\* round-to-nearest, ties-to-even, of the non-negative rational num/den units;
\* a result above f32::MAX is an infinity
RoundRat(neg, num, den) ==
    LET q == num \div den
        e == IF BitLen(q) > MantBits THEN BitLen(q) - MantBits ELSE 0
        step == Pow2(e)
        lo == (q \div step) * step
        twice == 2 * (num - lo * den)
        half == step * den
        k == IF twice < half THEN lo
             ELSE IF twice > half THEN lo + step
             ELSE IF (lo \div step) % 2 = 0 THEN lo ELSE lo + step
    IN IF k > MaxK THEN Inf(neg) ELSE Fin(neg, k)

\* ------------------------------------------------------- f32: arithmetic
FNeg(a) == IF IsNaN(a) THEN NaN ELSE [a EXCEPT !.neg = ~a.neg]

FAbs(a) == IF IsNaN(a) THEN NaN ELSE [a EXCEPT !.neg = FALSE]

\* a + b
FAdd(a, b) ==
    IF IsNaN(a) \/ IsNaN(b) THEN NaN
    ELSE IF IsInf(a) /\ IsInf(b) THEN (IF a.neg = b.neg THEN a ELSE NaN)
    ELSE IF IsInf(a) THEN a
    ELSE IF IsInf(b) THEN b
    ELSE LET s == Units(a) + Units(b)
         IN IF s = 0 THEN Fin(a.neg /\ b.neg, 0)
            ELSE IF s < 0 THEN RoundRat(TRUE, 0 - s, 1)
            ELSE RoundRat(FALSE, s, 1)

\* a - b
FSub(a, b) == FAdd(a, FNeg(b))

\* a * b
FMul(a, b) ==
    IF IsNaN(a) \/ IsNaN(b) THEN NaN
    ELSE IF IsInf(a) \/ IsInf(b)
         THEN (IF (IsFin(a) /\ a.k = 0) \/ (IsFin(b) /\ b.k = 0) THEN NaN
               ELSE Inf(a.neg # b.neg))
    ELSE RoundRat(a.neg # b.neg, a.k * b.k, One)

\* a / b
FDiv(a, b) ==
    IF IsNaN(a) \/ IsNaN(b) THEN NaN
    ELSE IF IsInf(a) THEN (IF IsInf(b) THEN NaN ELSE Inf(a.neg # b.neg))
    ELSE IF IsInf(b) THEN Fin(a.neg # b.neg, 0)
    ELSE IF b.k = 0 THEN (IF a.k = 0 THEN NaN ELSE Inf(a.neg # b.neg))
    ELSE RoundRat(a.neg # b.neg, a.k * One, b.k)

\* floor of the square root of n
RECURSIVE ISqrtFrom(_, _, _)
ISqrtFrom(n, r, bit) ==
    IF bit = 0 THEN r
    ELSE IF (r + bit) * (r + bit) <= n THEN ISqrtFrom(n, r + bit, bit \div 2)
    ELSE ISqrtFrom(n, r, bit \div 2)
ISqrt(n) == ISqrtFrom(n, 0, Pow2((BitLen(n) + 1) \div 2))

\* a.sqrt(), correctly rounded: the nearest float to sqrt(k / One)
FSqrt(a) ==
    IF IsNaN(a) THEN NaN
    ELSE IF IsFin(a) /\ a.k = 0 THEN a
    ELSE IF a.neg THEN NaN
    ELSE IF IsInf(a) THEN a
    ELSE LET n == a.k * One
             s == ISqrt(n)
             e == IF BitLen(s) > MantBits THEN BitLen(s) - MantBits ELSE 0
             step == Pow2(e)
             lo == (s \div step) * step
             mid2 == (2 * lo + step) * (2 * lo + step)
         IN Fin(FALSE, IF 4 * n < mid2 THEN lo ELSE lo + step)

\* a.powf(2.0): the square, never negative
FSquare(a) == FMul(a, a)

\* num_traits::Zero::is_zero for f32: *self == 0.0, true of both zeros
IsZero(a) == IsFin(a) /\ a.k = 0

\* a < b, false when either is NaN
FLt(a, b) ==
    IF IsNaN(a) \/ IsNaN(b) THEN FALSE
    ELSE IF IsInf(a) THEN a.neg /\ ~(IsInf(b) /\ b.neg)
    ELSE IF IsInf(b) THEN ~b.neg
    ELSE Units(a) < Units(b)

\* a == b on f32: equal values, the two zeros equal, NaN equal to nothing
FEq(a, b) ==
    IF IsNaN(a) \/ IsNaN(b) THEN FALSE
    ELSE IF IsZero(a) /\ IsZero(b) THEN TRUE
    ELSE a = b

\* ------------------------------------------------- f32: cos, sin, atan2
\* The library functions are modelled as the real function rounded to the
\* format; the real value is computed in fixed point, TrigOne to 1.0, from
\* an argument reduced modulo pi/2 (kept 6 bits finer) and a Taylor polynomial.

\* pi * 2^24, rounded (std::f32::consts::PI is 13176795 * 2^-22)
PiBits24 == 52707179
TrigBits == FracBits + 7
TrigOne == Pow2(TrigBits)
\* pi at scale TrigOne, pi/2 at scale 64 * TrigOne
PiTrig == (PiBits24 + Pow2(23 - TrigBits)) \div Pow2(24 - TrigBits)
HalfPiFine == (PiBits24 + Pow2(18 - TrigBits)) \div Pow2(19 - TrigBits)

\* fixed-point product and the two polynomials on [-pi/4, pi/4]
TMul(a, b) == (a * b) \div TrigOne
SinPoly(r) ==
    LET a == IF r < 0 THEN 0 - r ELSE r
        a2 == TMul(a, a)
        a3 == TMul(a2, a)
        a5 == TMul(a3, a2)
        a7 == TMul(a5, a2)
        p == a - a3 \div 6 + a5 \div 120 - a7 \div 5040
    IN IF r < 0 THEN 0 - p ELSE p
CosPoly(r) ==
    LET a2 == TMul(r, r)
        a4 == TMul(a2, a2)
        a6 == TMul(a4, a2)
        a8 == TMul(a4, a4)
    IN TrigOne - a2 \div 2 + a4 \div 24 - a6 \div 720 + a8 \div 40320

\* <<sin, cos>> at scale TrigOne of k units of angle, k >= 0
SinCosFixed(k) ==
    LET fine == k * Pow2(TrigBits + 6 - FracBits)
        n == (2 * fine + HalfPiFine) \div (2 * HalfPiFine)
        d == fine - n * HalfPiFine
        r == IF d < 0 THEN 0 - ((32 - d) \div 64) ELSE (d + 32) \div 64
        sp == SinPoly(r)
        cp == CosPoly(r)
        quad == n % 4
    IN IF quad = 0 THEN <<sp, cp>>
       ELSE IF quad = 1 THEN <<cp, 0 - sp>>
       ELSE IF quad = 2 THEN <<0 - sp, 0 - cp>>
       ELSE <<0 - cp, sp>>

\* a fixed-point value at scale TrigOne, rounded to the format
RoundFixed(neg, t) == RoundRat(neg, t * One, TrigOne)

\* a.cos()
FCos(a) ==
    IF ~IsFin(a) THEN NaN
    ELSE LET c == SinCosFixed(a.k)[2]
         IN IF c < 0 THEN RoundFixed(TRUE, 0 - c) ELSE RoundFixed(FALSE, c)

\* a.sin()
FSin(a) ==
    IF ~IsFin(a) THEN NaN
    ELSE IF a.k = 0 THEN a
    ELSE LET s == SinCosFixed(a.k)[1]
         IN IF s < 0 THEN RoundFixed(~a.neg, 0 - s) ELSE RoundFixed(a.neg, s)

\* atan of t / TrigOne for 0 <= t <= TrigOne, at scale TrigOne
AtanSeries(u) ==
    LET a == IF u < 0 THEN 0 - u ELSE u
        a2 == TMul(a, a)
        a3 == TMul(a2, a)
        a5 == TMul(a3, a2)
        a7 == TMul(a5, a2)
        a9 == TMul(a7, a2)
        p == a - a3 \div 3 + a5 \div 5 - a7 \div 7 + a9 \div 9
    IN IF u < 0 THEN 0 - p ELSE p
AtanFixed(t) ==
    IF 2 * t > TrigOne
    THEN PiTrig \div 4 + AtanSeries(0 - (((TrigOne - t) * TrigOne) \div (t + TrigOne)))
    ELSE AtanSeries(t)

\* the angle in [0, pi] of the point (x, |y|), at scale TrigOne
AngleFixed(y, x) ==
    IF IsZero(y) THEN (IF x.neg THEN PiTrig ELSE 0)
    ELSE IF IsZero(x) THEN PiTrig \div 2
    ELSE IF IsInf(y)
         THEN (IF IsInf(x) THEN (IF x.neg THEN (3 * PiTrig) \div 4 ELSE PiTrig \div 4)
               ELSE PiTrig \div 2)
    ELSE IF IsInf(x) THEN (IF x.neg THEN PiTrig ELSE 0)
    ELSE LET phi == IF y.k <= x.k THEN AtanFixed((y.k * TrigOne) \div x.k)
                    ELSE PiTrig \div 2 - AtanFixed((x.k * TrigOne) \div y.k)
         IN IF x.neg THEN PiTrig - phi ELSE phi

\* y.atan2(x): the angle of (x, y) in [-pi, pi], with the sign of y
FAtan2(y, x) ==
    IF IsNaN(y) \/ IsNaN(x) THEN NaN
    ELSE RoundFixed(y.neg, AngleFixed(y, x))

\* ------------------------------------------------------------------ Vec2
\* Vec2 { x, y } and the coordinate pair (f32, f32): a record and a tuple
new(x, y) == [x |-> x, y |-> y]
Default == new(PosZero, PosZero)

\* impl From<(f32, f32)> for Vec2
from_Pair(input) == [x |-> input[1], y |-> input[2]]

\* an argument of type U: Into<Vec2>: a Vec2 (the identity conversion) or a pair
VecArg(w) == [kind |-> "vec", val |-> w]
PairArg(p) == [kind |-> "pair", val |-> p]
into(u) == IF u.kind = "pair" THEN from_Pair(u.val) ELSE u.val

\* the trait impls of the file, <<trait, Self, Rhs>>
Impls ==
    { <<"PartialEq", "Vec2", "Vec2">>, <<"PartialEq", "Vec2", "Pair">>,
      <<"Add", "Vec2", "Vec2">>, <<"Sub", "Vec2", "Vec2">>,
      <<"AddAssign", "Vec2", "Vec2">>, <<"SubAssign", "Vec2", "Vec2">>,
      <<"Add", "Vec2", "Pair">>, <<"Sub", "Vec2", "Pair">>,
      <<"AddAssign", "Vec2", "Pair">>, <<"SubAssign", "Vec2", "Pair">>,
      <<"Add", "Pair", "Vec2">>, <<"Sub", "Pair", "Vec2">>,
      <<"AddAssign", "Pair", "Vec2">>, <<"SubAssign", "Pair", "Vec2">>,
      <<"From", "Vec2", "Pair">>, <<"Display", "Vec2", "Vec2">> }

\* Vec2::add, Vec2::sub: the new value of self
add(self, rhs) ==
    LET r == into(rhs) IN new(FAdd(self.x, r.x), FAdd(self.y, r.y))

sub(self, rhs) ==
    LET r == into(rhs) IN new(FSub(self.x, r.x), FSub(self.y, r.y))

dot(self, other) ==
    LET o == into(other) IN FAdd(FMul(self.x, o.x), FMul(self.y, o.y))

\* the cross product with its two terms exchanged
cross_exchanged(self, other) ==
    LET o == into(other) IN FSub(FMul(self.y, o.x), FMul(self.x, o.y))

cross(self, other) ==
    LET o == into(other) IN FSub(FMul(self.x, o.y), FMul(self.y, o.x))

mag(self) == FSqrt(FAdd(FSquare(self.x), FSquare(self.y)))

\* dir without its zero-vector branch
dir_unbranched(self) == FAtan2(self.y, self.x)

dir(self) ==
    IF IsZero(self.x) /\ IsZero(self.y) THEN PosZero
    ELSE FAtan2(self.y, self.x)

scale(self, value) == new(FMul(self.x, value), FMul(self.y, value))

\* normalize without its zero-magnitude guard
normalize_unguarded(self) ==
    LET m == mag(self)
    IN [self |-> scale(self, FDiv(FOne, m)), divisors |-> {m}]

\* Vec2::normalize: the new value of self, and the divisors of the divisions made
normalize_run(self) ==
    LET m == mag(self)
    IN IF ~IsZero(m)
       THEN [self |-> scale(self, FDiv(FOne, m)), divisors |-> {m}]
       ELSE [self |-> self, divisors |-> {}]
normalize(self) == normalize_run(self).self

\* set_direction that forgets the magnitude: the unit vector at angle rad
set_direction_unit(self, rad) ==
    LET m == mag(self)
    IN IF ~FEq(m, PosZero)
       THEN new(FCos(rad), FSin(rad))
       ELSE self

set_direction(self, rad) ==
    LET m == mag(self)
    IN IF ~FEq(m, PosZero)
       THEN new(FMul(FCos(rad), m), FMul(FSin(rad), m))
       ELSE self

rotate(self, rad) == set_direction(self, FAdd(rad, dir(self)))

\* the subtraction with the sign of its y component wrong
sub_Vec2_Vec2_plus_y(self, rhs) == new(FSub(self.x, rhs.x), FAdd(self.y, rhs.y))

\* impl Add<Vec2> for Vec2, impl Sub<Vec2> for Vec2
add_Vec2_Vec2(self, rhs) == new(FAdd(self.x, rhs.x), FAdd(self.y, rhs.y))
sub_Vec2_Vec2(self, rhs) == new(FSub(self.x, rhs.x), FSub(self.y, rhs.y))
\* impl AddAssign<Vec2> for Vec2, impl SubAssign<Vec2> for Vec2: the new self
add_assign_Vec2_Vec2(self, rhs) == new(FAdd(self.x, rhs.x), FAdd(self.y, rhs.y))
sub_assign_Vec2_Vec2(self, rhs) == new(FSub(self.x, rhs.x), FSub(self.y, rhs.y))
\* impl Add<(f32, f32)> for Vec2, impl Sub<(f32, f32)> for Vec2
add_Vec2_Pair(self, rhs) == new(FAdd(self.x, rhs[1]), FAdd(self.y, rhs[2]))
sub_Vec2_Pair(self, rhs) == new(FSub(self.x, rhs[1]), FSub(self.y, rhs[2]))
\* impl AddAssign<(f32, f32)> for Vec2, impl SubAssign<(f32, f32)> for Vec2
add_assign_Vec2_Pair(self, rhs) == new(FAdd(self.x, rhs[1]), FAdd(self.y, rhs[2]))
sub_assign_Vec2_Pair(self, rhs) == new(FSub(self.x, rhs[1]), FSub(self.y, rhs[2]))
\* impl Add<Vec2> for (f32, f32), impl Sub<Vec2> for (f32, f32): a Vec2
add_Pair_Vec2(self, rhs) == new(FAdd(self[1], rhs.x), FAdd(self[2], rhs.y))
\* the subtraction with its operands in the order of the Vec2 - pair impl
sub_Pair_Vec2_swapped(self, rhs) == new(FSub(rhs.x, self[1]), FSub(rhs.y, self[2]))
sub_Pair_Vec2(self, rhs) == new(FSub(self[1], rhs.x), FSub(self[2], rhs.y))
\* impl AddAssign<Vec2> for (f32, f32), impl SubAssign<Vec2> for (f32, f32):
\* the new value of the pair
add_assign_Pair_Vec2(self, rhs) == <<FAdd(self[1], rhs.x), FAdd(self[2], rhs.y)>>
sub_assign_Pair_Vec2(self, rhs) == <<FSub(self[1], rhs.x), FSub(self[2], rhs.y)>>

\* rotate_over without the translation back
rotate_over_no_add(self, origin, rad) ==
    LET o == into(origin)
        s1 == sub(self, VecArg(o))
    IN rotate(s1, rad)

rotate_over(self, origin, rad) ==
    LET o == into(origin)
        s1 == sub(self, VecArg(o))
        s2 == rotate(s1, rad)
    IN add(s2, VecArg(o))

\* point_towards that returns early when the target is the vector itself
point_towards_skip_self(self, target) ==
    LET t == into(target)
    IN IF t = self THEN self
       ELSE set_direction(self, dir(sub_Vec2_Vec2(t, self)))

point_towards(self, target) ==
    LET t == into(target)
    IN set_direction(self, dir(sub_Vec2_Vec2(t, self)))

\* impl PartialEq<Vec2> for Vec2, impl PartialEq<(f32, f32)> for Vec2
eq_Vec2_Vec2(self, other) ==
    /\ FLt(FAbs(FSub(self.x, other.x)), EPSILON)
    /\ FLt(FAbs(FSub(self.y, other.y)), EPSILON)
eq_Vec2_Pair(self, other) ==
    /\ FLt(FAbs(FSub(self.x, other[1])), EPSILON)
    /\ FLt(FAbs(FSub(self.y, other[2])), EPSILON)

\* ------------------------------------------------------- the state machine
\* One Vec2 instance and the last call made on it.
VARIABLES
    v,      \* the Vec2 instance
    op,     \* the last operation
    pre,    \* the instance before the last operation
    arg,    \* its Vec2 or pair argument (NoArg when it takes none)
    rad,    \* its f32 argument (+0.0 when it takes none)
    ret,    \* what it returned or left in its other operand (NoRet when nothing)
    divs,   \* the divisors of the divisions it made
    m0,     \* mag() at the start of the current run of orientation mutators
    steps   \* operations applied since construction

vars == <<v, op, pre, arg, rad, ret, divs, m0, steps>>

NoArg == [kind |-> "none", val |-> <<>>]
NoRet == [kind |-> "none"]
RetF32(f) == [kind |-> "f32", val |-> f]
RetVec(w) == [kind |-> "vec", val |-> w]
RetPair(q) == [kind |-> "pair", val |-> q]
RetBool(b) == [kind |-> "bool", val |-> b]

\* std::f32::consts::PI and FRAC_PI_2, rounded to the format
FPi == RoundFixed(FALSE, PiTrig)
FHalfPi == RoundFixed(FALSE, PiTrig \div 2)
FTwo == Fin(FALSE, 2 * One)
FThree == Fin(FALSE, 3 * One)
FFour == Fin(FALSE, 4 * One)
FMax == Fin(FALSE, MaxK)
FTiny == Fin(FALSE, 1)

\* the component values vectors are constructed from
Components ==
    {PosZero, NegZero, FOne, FNeg(FOne), FTwo, FThree, FFour, FMax, FTiny,
     Inf(FALSE), NaN}
\* the coordinate pairs given as arguments
ArgPairs ==
    { <<PosZero, PosZero>>, <<PosZero, FOne>>, <<FThree, FFour>>,
      <<FNeg(FOne), FTiny>>, <<FMax, FMax>>, <<Inf(FALSE), NegZero>> }
\* the pivots given to rotate_over
Origins == { <<PosZero, PosZero>>, <<NegZero, NegZero>>, <<FThree, FFour>> }
\* the angles and the scale factors given as arguments
Angles == {PosZero, FOne, FHalfPi, FPi, FNeg(FThree), Inf(FALSE), NaN}
Factors == {PosZero, FTwo, FNeg(FOne), NaN}

\* the pairs offered to a call: the fixed ones and the instance's own components
PairsFor(w) == ArgPairs \cup {<<w.x, w.y>>}
\* the arguments offered to a U: Into<Vec2> parameter
IntoArgsFor(w) ==
    {PairArg(q) : q \in PairsFor(w)}
        \cup {VecArg(from_Pair(q)) : q \in {<<FThree, FFour>>, <<w.x, w.y>>}}
OriginArgs ==
    {PairArg(q) : q \in Origins} \cup {VecArg(from_Pair(<<PosZero, PosZero>>))}

Init ==
    /\ \E x \in Components, y \in Components :
          \/ /\ v = new(x, y)
             /\ op = "new"
             /\ arg = NoArg
          \/ /\ v = from_Pair(<<x, y>>)
             /\ op = "from"
             /\ arg = PairArg(<<x, y>>)
    /\ pre = Default
    /\ rad = PosZero
    /\ ret = NoRet
    /\ divs = {}
    /\ m0 = mag(v)
    /\ steps = 0

\* the bookkeeping shared by every call
Call(name, a, r, result) ==
    /\ op \in {"new", "from", "idle"}
    /\ steps < MaxSteps
    /\ steps' = steps + 1
    /\ op' = name
    /\ pre' = v
    /\ arg' = a
    /\ rad' = r
    /\ ret' = result

\* a mutator that is not an orientation mutator starts a new run
Mutate(w) == v' = w /\ m0' = mag(w) /\ divs' = {}
\* an orientation mutator keeps the run's starting magnitude
Orient(w) == v' = w /\ UNCHANGED m0 /\ divs' = {}
Pure == UNCHANGED <<v, m0>> /\ divs' = {}

Add == \E u \in IntoArgsFor(v) :
    Call("add", u, PosZero, NoRet) /\ Mutate(add(v, u))
Sub == \E u \in IntoArgsFor(v) :
    Call("sub", u, PosZero, NoRet) /\ Mutate(sub(v, u))
Dot == \E u \in IntoArgsFor(v) :
    Call("dot", u, PosZero, RetF32(dot(v, u))) /\ Pure
Cross == \E u \in IntoArgsFor(v) :
    Call("cross", u, PosZero, RetF32(cross(v, u))) /\ Pure
Mag == Call("mag", NoArg, PosZero, RetF32(mag(v))) /\ Pure
Dir == Call("dir", NoArg, PosZero, RetF32(dir(v))) /\ Pure
Normalize ==
    /\ Call("normalize", NoArg, PosZero, NoRet)
    /\ v' = normalize_run(v).self
    /\ divs' = normalize_run(v).divisors
    /\ m0' = mag(v')
Scale == \E k \in Factors :
    Call("scale", NoArg, k, NoRet) /\ Mutate(scale(v, k))
SetDirection == \E r \in Angles :
    Call("set_direction", NoArg, r, NoRet) /\ Orient(set_direction(v, r))
Rotate == \E r \in Angles :
    Call("rotate", NoArg, r, NoRet) /\ Orient(rotate(v, r))
RotateOver == \E u \in OriginArgs, r \in Angles :
    Call("rotate_over", u, r, NoRet) /\ Mutate(rotate_over(v, u, r))
PointTowards == \E u \in IntoArgsFor(v) :
    Call("point_towards", u, PosZero, NoRet) /\ Orient(point_towards(v, u))

EqVec == \E q \in PairsFor(v) :
    Call("eq_Vec2_Vec2", VecArg(from_Pair(q)), PosZero,
         RetBool(eq_Vec2_Vec2(v, from_Pair(q)))) /\ Pure
EqPair == \E q \in PairsFor(v) :
    Call("eq_Vec2_Pair", PairArg(q), PosZero, RetBool(eq_Vec2_Pair(v, q))) /\ Pure

AddVecVec == \E q \in PairsFor(v) :
    Call("add_Vec2_Vec2", VecArg(from_Pair(q)), PosZero,
         RetVec(add_Vec2_Vec2(v, from_Pair(q)))) /\ Pure
SubVecVec == \E q \in PairsFor(v) :
    Call("sub_Vec2_Vec2", VecArg(from_Pair(q)), PosZero,
         RetVec(sub_Vec2_Vec2(v, from_Pair(q)))) /\ Pure
AddAssignVecVec == \E q \in PairsFor(v) :
    Call("add_assign_Vec2_Vec2", VecArg(from_Pair(q)), PosZero, NoRet)
    /\ Mutate(add_assign_Vec2_Vec2(v, from_Pair(q)))
SubAssignVecVec == \E q \in PairsFor(v) :
    Call("sub_assign_Vec2_Vec2", VecArg(from_Pair(q)), PosZero, NoRet)
    /\ Mutate(sub_assign_Vec2_Vec2(v, from_Pair(q)))

AddVecPair == \E q \in PairsFor(v) :
    Call("add_Vec2_Pair", PairArg(q), PosZero, RetVec(add_Vec2_Pair(v, q))) /\ Pure
SubVecPair == \E q \in PairsFor(v) :
    Call("sub_Vec2_Pair", PairArg(q), PosZero, RetVec(sub_Vec2_Pair(v, q))) /\ Pure
AddAssignVecPair == \E q \in PairsFor(v) :
    Call("add_assign_Vec2_Pair", PairArg(q), PosZero, NoRet)
    /\ Mutate(add_assign_Vec2_Pair(v, q))
SubAssignVecPair == \E q \in PairsFor(v) :
    Call("sub_assign_Vec2_Pair", PairArg(q), PosZero, NoRet)
    /\ Mutate(sub_assign_Vec2_Pair(v, q))

\* the pair is the left operand and the instance the right one
AddPairVec == \E q \in PairsFor(v) :
    Call("add_Pair_Vec2", PairArg(q), PosZero, RetVec(add_Pair_Vec2(q, v))) /\ Pure
SubPairVec == \E q \in PairsFor(v) :
    Call("sub_Pair_Vec2", PairArg(q), PosZero, RetVec(sub_Pair_Vec2(q, v))) /\ Pure
AddAssignPairVec == \E q \in PairsFor(v) :
    Call("add_assign_Pair_Vec2", PairArg(q), PosZero,
         RetPair(add_assign_Pair_Vec2(q, v))) /\ Pure
SubAssignPairVec == \E q \in PairsFor(v) :
    Call("sub_assign_Pair_Vec2", PairArg(q), PosZero,
         RetPair(sub_assign_Pair_Vec2(q, v))) /\ Pure

\* the call has returned and its result is dropped; the instance stays
Return ==
    /\ op \notin {"new", "from", "idle"}
    /\ op' = "idle"
    /\ pre' = Default
    /\ arg' = NoArg
    /\ rad' = PosZero
    /\ ret' = NoRet
    /\ divs' = {}
    /\ UNCHANGED <<v, m0, steps>>

Next ==
    \/ Return
    \/ Add \/ Sub \/ Dot \/ Cross \/ Mag \/ Dir
    \/ Normalize \/ Scale \/ SetDirection \/ Rotate \/ RotateOver \/ PointTowards
    \/ EqVec \/ EqPair
    \/ AddVecVec \/ SubVecVec \/ AddAssignVecVec \/ SubAssignVecVec
    \/ AddVecPair \/ SubVecPair \/ AddAssignVecPair \/ SubAssignVecPair
    \/ AddPairVec \/ SubPairVec \/ AddAssignPairVec \/ SubAssignPairVec

Spec == Init /\ [][Next]_vars

\* ------------------------------------------------------------------ properties
Finite(w) == IsFin(w.x) /\ IsFin(w.y)

\* C1: on a vector whose mag() is exactly zero, normalize() and
\* set_direction(rad), for every rad, leave x and y as they were and make no
\* division at all; no call ever divides by a zero magnitude.
C1_ZeroMagnitudeNoOp ==
    /\ (op \in {"normalize", "set_direction"} /\ IsZero(mag(pre)))
          => (v = pre /\ divs = {})
    /\ \A d \in divs : ~IsZero(d)

\* C1 witness: normalize() was called on a vector with a non-zero component
\* whose square underflows, so that mag() is zero
C1_Witness ==
    /\ op = "normalize"
    /\ IsZero(mag(pre))
    /\ pre.x = FTiny
    /\ v = pre

\* C2: dir() returns +0.0 when both components are zeros (of either sign) and
\* y.atan2(x) for every other vector; the zero case does not rest on atan2,
\* which is pi at (+0.0, -0.0).
C2_DirZeroBranch ==
    op = "dir" =>
        /\ (IsZero(pre.x) /\ IsZero(pre.y)) => ret.val = PosZero
        /\ ~(IsZero(pre.x) /\ IsZero(pre.y)) => ret.val = FAtan2(pre.y, pre.x)
        /\ v = pre

\* C2 witness: dir() of the zero vector (-0.0, +0.0), where atan2 gives pi
C2_Witness ==
    /\ op = "dir"
    /\ pre = new(NegZero, PosZero)
    /\ FAtan2(pre.y, pre.x) = FPi
    /\ ret.val = PosZero

\* C3: v + p, p + v and v + Vec2::from(p) have the same components; v - p is
\* v - Vec2::from(p); p - v is Vec2::from(p) - v; and +=, -=, add and sub leave
\* their left operand with the components the value-returning form returns.
C3_PairInterop ==
    /\ op = "add_Vec2_Pair" =>
          /\ ret.val = add_Pair_Vec2(arg.val, pre)
          /\ ret.val = add_Vec2_Vec2(pre, from_Pair(arg.val))
    /\ op = "add_Pair_Vec2" =>
          /\ ret.val = add_Vec2_Pair(pre, arg.val)
          /\ ret.val = add_Vec2_Vec2(pre, from_Pair(arg.val))
    /\ op = "sub_Vec2_Pair" => ret.val = sub_Vec2_Vec2(pre, from_Pair(arg.val))
    /\ op = "sub_Pair_Vec2" => ret.val = sub_Vec2_Vec2(from_Pair(arg.val), pre)
    /\ op = "add_assign_Vec2_Vec2" => v = add_Vec2_Vec2(pre, arg.val)
    /\ op = "sub_assign_Vec2_Vec2" => v = sub_Vec2_Vec2(pre, arg.val)
    /\ op = "add_assign_Vec2_Pair" => v = add_Vec2_Pair(pre, arg.val)
    /\ op = "sub_assign_Vec2_Pair" => v = sub_Vec2_Pair(pre, arg.val)
    /\ op = "add_assign_Pair_Vec2" =>
          /\ from_Pair(ret.val) = add_Pair_Vec2(arg.val, pre)
          /\ v = pre
    /\ op = "sub_assign_Pair_Vec2" =>
          /\ from_Pair(ret.val) = sub_Pair_Vec2(arg.val, pre)
          /\ v = pre
    /\ op = "add" =>
          /\ v = add_Vec2_Vec2(pre, into(arg))
          /\ arg.kind = "pair" => v = add_Vec2_Pair(pre, arg.val)
    /\ op = "sub" =>
          /\ v = sub_Vec2_Vec2(pre, into(arg))
          /\ arg.kind = "pair" => v = sub_Vec2_Pair(pre, arg.val)

\* C3 witness: p - v was computed for a pair and a vector whose difference
\* depends on the operand order
C3_Witness ==
    /\ op = "sub_Pair_Vec2"
    /\ arg.val = <<FThree, FFour>>
    /\ pre = new(FOne, FTwo)
    /\ ret.val = new(FTwo, FTwo)
    /\ ret.val # sub_Vec2_Pair(pre, arg.val)

\* the sum a + b is finite and was not rounded
ExactSum(a, b) ==
    /\ IsFin(a) /\ IsFin(b) /\ IsFin(FAdd(a, b))
    /\ Units(FAdd(a, b)) = Units(a) + Units(b)
\* |a| <= 1.0
AtMostOne(a) == IsFin(a) /\ a.k <= One

\* C4 as stated, for finite v and w: v + w == w + v and (v + w) - w == v
\* under the epsilon-tolerant equality.
C4_Original ==
    (op = "add_Vec2_Vec2" /\ Finite(pre) /\ Finite(arg.val)) =>
        /\ eq_Vec2_Vec2(ret.val, add_Vec2_Vec2(arg.val, pre))
        /\ eq_Vec2_Vec2(sub_Vec2_Vec2(ret.val, arg.val), pre)

\* C4 amended: v + w and w + v have identical components, and v + w == w + v
\* when those are finite; (v + w) - w == v when neither component sum was
\* rounded, and when no component of v or w exceeds 1.0 in absolute value.
C4_AddCommutesSubUndoes ==
    op = "add_Vec2_Vec2" =>
        LET w == arg.val
            back == sub_Vec2_Vec2(ret.val, w)
        IN /\ ret.val = add_Vec2_Vec2(w, pre)
           /\ Finite(ret.val) => eq_Vec2_Vec2(ret.val, add_Vec2_Vec2(w, pre))
           /\ (ExactSum(pre.x, w.x) /\ ExactSum(pre.y, w.y))
                 => eq_Vec2_Vec2(back, pre)
           /\ (AtMostOne(pre.x) /\ AtMostOne(pre.y) /\ AtMostOne(w.x) /\ AtMostOne(w.y))
                 => eq_Vec2_Vec2(back, pre)

\* C4 witness: a sum that was rounded, of components at most 1.0, is undone
\* within epsilon but not exactly
C4_Witness ==
    /\ op = "add_Vec2_Vec2"
    /\ pre = new(FOne, PosZero)
    /\ arg.val = new(FNeg(FOne), FTiny)
    /\ ~ExactSum(pre.y, arg.val.y) \/ ~ExactSum(pre.x, arg.val.x) \/ ret.val.y = FTiny
    /\ eq_Vec2_Vec2(sub_Vec2_Vec2(ret.val, arg.val), pre)

\* C5 as stated: for v and p with numerically equal components v == p is
\* true, p == v is defined too, and gives the same answer.
C5_PairEqBothOrders ==
    (op = "eq_Vec2_Pair" /\ FEq(pre.x, arg.val[1]) /\ FEq(pre.y, arg.val[2])) =>
        /\ ret.val = TRUE
        /\ <<"PartialEq", "Pair", "Vec2">> \in Impls

\* C6 as stated: a pair converts to a Vec2 with x = a and y = b, and a Vec2
\* converts back to the pair.
C6_ConversionBothWays ==
    op = "from" =>
        /\ v.x = arg.val[1]
        /\ v.y = arg.val[2]
        /\ <<"From", "Pair", "Vec2">> \in Impls

\* the same f32 value: equal under ==, or both NaN
SameValue(a, b) == (IsNaN(a) /\ IsNaN(b)) \/ FEq(a, b)

\* C7: rotate_over(origin, rad) leaves rotate(v - origin, rad) + origin, and
\* with origin (0.0, 0.0) the values that rotate(rad) leaves.
C7_RotateOver ==
    op = "rotate_over" =>
        LET o == into(arg)
            moved == sub_Vec2_Vec2(pre, o)
        IN /\ v = add_Vec2_Vec2(rotate(moved, rad), o)
           /\ o = new(PosZero, PosZero) =>
                 /\ SameValue(v.x, rotate(pre, rad).x)
                 /\ SameValue(v.y, rotate(pre, rad).y)

\* C7 witness: a rotation by a quarter turn about (3, 4) that moved the vector
C7_Witness ==
    /\ op = "rotate_over"
    /\ arg = PairArg(<<FThree, FFour>>)
    /\ rad = FHalfPi
    /\ pre = new(FFour, FFour)
    /\ Finite(v)
    /\ v # pre
    /\ v # rotate(sub_Vec2_Vec2(pre, into(arg)), rad)

\* C9: dot returns x1*x2 + y1*y2 and cross returns x1*y2 - y1*x2 in f32
\* arithmetic, exactly the real value when nothing is rounded, and neither
\* changes the vector; (1,2).(3,4) = 11 and (1,2)x(3,4) = -2.
C9_DotCross ==
    /\ op = "dot" =>
          LET o == into(arg)
          IN /\ ret.val = FAdd(FMul(pre.x, o.x), FMul(pre.y, o.y))
             /\ v = pre
             /\ (pre = new(FOne, FTwo) /\ o = new(FThree, FFour))
                   => ret.val = Fin(FALSE, 11 * One)
    /\ op = "cross" =>
          LET o == into(arg)
          IN /\ ret.val = FSub(FMul(pre.x, o.y), FMul(pre.y, o.x))
             /\ v = pre
             /\ (pre = new(FOne, FTwo) /\ o = new(FThree, FFour))
                   => ret.val = Fin(TRUE, 2 * One)

\* C9 witness: (1, 2) cross the pair (3, 4) returned -2
C9_Witness ==
    /\ op = "cross"
    /\ pre = new(FOne, FTwo)
    /\ arg = PairArg(<<FThree, FFour>>)
    /\ ret.val = Fin(TRUE, 2 * One)

\* C10 as stated, for finite v: v.point_towards(v) leaves (m, 0) for every v
\* with non-zero magnitude m, and leaves v unchanged only when m is zero.
C10_Original ==
    (op = "point_towards" /\ into(arg) = pre /\ Finite(pre)) =>
        LET m == mag(pre)
        IN /\ IsZero(m) => v = pre
           /\ ~IsZero(m) => (v = new(m, PosZero) /\ v # pre)

\* C10 amended: v.point_towards(v) leaves v unchanged when mag() is zero;
\* leaves (m, +0.0) when v's components are finite and m = mag() is finite
\* and non-zero, which changes v unless v already is (m, +0.0); leaves
\* (inf, NaN) when the components are finite and mag() overflows; and leaves
\* (NaN, NaN) when a component is infinite or NaN.
C10_PointTowardsSelf ==
    (op = "point_towards" /\ into(arg) = pre) =>
        LET m == mag(pre)
        IN /\ IsZero(m) => v = pre
           /\ (Finite(pre) /\ IsFin(m) /\ ~IsZero(m)) => v = new(m, PosZero)
           /\ (Finite(pre) /\ IsInf(m)) => v = new(Inf(FALSE), NaN)
           /\ ~Finite(pre) => v = new(NaN, NaN)
           /\ Finite(pre) => ((v = pre) <=> (IsZero(m) \/ pre = new(m, PosZero)))

\* C10 witness: (3, 4).point_towards((3, 4)) left (5, 0)
C10_Witness ==
    /\ op = "point_towards"
    /\ arg = PairArg(<<FThree, FFour>>)
    /\ pre = new(FThree, FFour)
    /\ v = new(Fin(FALSE, 5 * One), PosZero)

OrientOps == {"set_direction", "rotate", "point_towards"}
\* the distance between neighbouring floats at the finite float m, in units
Ulp(m) == Pow2(IF BitLen(m.k) > MantBits THEN BitLen(m.k) - MantBits ELSE 0)
\* m * m is at least twice the smallest normal float and at most f32::MAX / 2
SquareInRange(m) ==
    /\ IsFin(m)
    /\ IsFin(FSquare(m))
    /\ FSquare(m).k >= 2 * Pow2(MantBits - 1)
    /\ FSquare(m).k <= MaxK \div 2
\* the angle the orientation mutator was given is a number
AngleGiven ==
    IF op = "point_towards"
    THEN ~IsNaN(into(arg).x) /\ ~IsNaN(into(arg).y)
    ELSE IsFin(rad)

=============================================================================
